---- MODULE Spec2Model ----
(***************************************************************************)
(* Model of the 5-stage pipeline simulator of                              *)
(* src/pipeline_simulation/main_fixed51.cpp: main reads a count and that   *)
(* many lines, PipelineSimulator::addInstruction decodes each line, and    *)
(* PipelineSimulator::simulate assigns the stage cycles.                   *)
(*                                                                         *)
(* A std::string is a sequence of symbols.  A symbol is a blank, a tab, a  *)
(* comma, or a word: a maximal run of other characters, kept whole.        *)
(***************************************************************************)
EXTENDS Integers, Sequences, FiniteSets, TLC

VARIABLES countOk, declared, lines, pos, instructions, i, pc, out, status

vars == <<countOk, declared, lines, pos, instructions, i, pc, out, status>>

\* Largest declared instruction count of an input.
MaxN == 3

\* status is <<>> while main runs and <<code>> once it has returned code;
\* out is what has been written to std::cout.
Running == <<>>

Space == " "
Tab == "\t"
Comma == ","

Words == {"LOAD", "STORE", "ADD", "SUB", "MUL", "R1", "R2", "5", "7", "A", "B"}

\* The first character of each word.
WordFirstChar ==
  [w \in Words |->
     CASE w \in {"R1", "R2"} -> "R"
       [] w = "LOAD" -> "L"
       [] w \in {"STORE", "SUB"} -> "S"
       [] w \in {"ADD", "A"} -> "A"
       [] w = "MUL" -> "M"
       [] w = "B" -> "B"
       [] OTHER -> w]

\* The characters trim strips and operator>> skips (" \t\r\n").
IsSpace(c) == c \in {Space, Tab}

\* str.find(c, from): the first index >= from holding c, 0 for npos
\* (indices are 1-based here, 0-based in the code).
Find(str, c, from) ==
  LET hits == {k \in from..Len(str) : str[k] = c}
  IN  IF hits = {} THEN 0 ELSE CHOOSE k \in hits : \A m \in hits : k <= m

trim(str) ==
  LET solid == {k \in 1..Len(str) : ~IsSpace(str[k])}
  IN  IF solid = {} THEN <<>>
      ELSE LET first == CHOOSE k \in solid : \A m \in solid : k <= m
               last  == CHOOSE k \in solid : \A m \in solid : k >= m
           IN  SubSeq(str, first, last)

\* A default-constructed Instruction; type is not initialised by the
\* constructor and is assigned by whichever parser accepts the line.
NewInstruction ==
  [type |-> "UNSET", destReg |-> <<>>, src1Reg |-> <<>>, src2Reg |-> <<>>,
   memLoc |-> <<>>, isImmediate1 |-> FALSE, isImmediate2 |-> FALSE,
   ifCycle |-> 0, idCycle |-> 0, exCycle |-> 0, memCycle |-> 0,
   wbCycle |-> 0, stalled |-> FALSE]

parseLoadStore(line, inst) ==
  LET trimmed  == trim(line)
      typeEnd  == Find(trimmed, Space, 1)
      type     == SubSeq(trimmed, 1, typeEnd - 1)
      commaPos == Find(trimmed, Comma, typeEnd)
      reg      == trim(SubSeq(trimmed, typeEnd, commaPos - 1))
      mem      == trim(SubSeq(trimmed, commaPos + 1, Len(trimmed)))
  IN  IF trimmed = <<>> THEN [ok |-> FALSE, inst |-> inst]
      ELSE IF typeEnd = 0 THEN [ok |-> FALSE, inst |-> inst]
      ELSE IF type # <<"LOAD">> /\ type # <<"STORE">>
        THEN [ok |-> FALSE, inst |-> inst]
      ELSE IF commaPos = 0 THEN [ok |-> FALSE, inst |-> inst]
      ELSE IF type = <<"LOAD">>
        THEN [ok |-> TRUE,
              inst |-> [inst EXCEPT !.type = "LOAD", !.destReg = reg,
                                    !.memLoc = mem]]
        ELSE [ok |-> TRUE,
              inst |-> [inst EXCEPT !.type = "STORE", !.src1Reg = reg,
                                    !.memLoc = mem]]

\* while (iss >> token): the maximal runs of non-blank symbols, in order.
RECURSIVE Split(_, _, _)
Split(str, k, cur) ==
  IF k > Len(str)
    THEN IF cur = <<>> THEN <<>> ELSE <<cur>>
    ELSE IF IsSpace(str[k])
      THEN IF cur = <<>> THEN Split(str, k + 1, <<>>)
                         ELSE <<cur>> \o Split(str, k + 1, <<>>)
      ELSE Split(str, k + 1, Append(cur, str[k]))

\* if (token.back() == ',') token.pop_back();
PopComma(token) ==
  IF token[Len(token)] = Comma THEN SubSeq(token, 1, Len(token) - 1)
                               ELSE token

Tokenize(str) ==
  LET raw == Split(str, 1, <<>>)
  IN  [k \in 1..Len(raw) |-> PopComma(raw[k])]

\* token[0]: the first character of a token ('\0' for an empty one).
FirstChar(token) ==
  IF token = <<>> THEN "NUL"
  ELSE IF token[1] = Comma THEN Comma
  ELSE WordFirstChar[token[1]]

parseAddSub(line, inst) ==
  LET trimmed == trim(line)
      tokens  == Tokenize(trimmed)
  IN  IF trimmed = <<>> THEN [ok |-> FALSE, inst |-> inst]
      ELSE IF Len(tokens) < 4 THEN [ok |-> FALSE, inst |-> inst]
      ELSE IF tokens[1] # <<"ADD">> /\ tokens[1] # <<"SUB">>
        THEN [ok |-> FALSE, inst |-> inst]
      ELSE
        LET a == [inst EXCEPT
                    !.type = IF tokens[1] = <<"ADD">> THEN "ADD" ELSE "SUB",
                    !.destReg = tokens[2]]
            b == IF FirstChar(tokens[3]) = "R"
                   THEN [a EXCEPT !.src1Reg = tokens[3], !.isImmediate1 = FALSE]
                   ELSE [a EXCEPT !.isImmediate1 = TRUE]
            c == IF FirstChar(tokens[4]) = "R"
                   THEN [b EXCEPT !.src2Reg = tokens[4], !.isImmediate2 = FALSE]
                   ELSE [b EXCEPT !.isImmediate2 = TRUE]
        IN  [ok |-> TRUE, inst |-> c]

\* The instruction list after addInstruction(line).
addInstruction(insts, line) ==
  LET trimmed == trim(line)
      ls      == parseLoadStore(trimmed, NewInstruction)
      as      == parseAddSub(trimmed, ls.inst)
  IN  IF trimmed = <<>> THEN insts
      ELSE IF ls.ok THEN Append(insts, ls.inst)
      ELSE IF as.ok THEN Append(insts, as.inst)
      ELSE insts


(***************************************************************************)
(* Input lines.                                                            *)
(***************************************************************************)
Lines ==
  { <<"LOAD", Space, "R1", Comma, Space, "A">>,
    <<"LOAD", Space, "R2", Comma, Space, "B">>,
    <<"STORE", Space, "R1", Comma, Space, "A">>,
    <<"STORE", Space, "R2", Comma, Space, "B">>,
    <<"ADD", Space, "R1", Comma, Space, "R2", Comma, Space, "5">>,
    <<"ADD", Space, "R2", Comma, Space, "R1", Comma, Space, "R1">>,
    <<"SUB", Space, "R1", Comma, Space, "5", Comma, Space, "R2">>,
    <<"SUB", Space, "R2", Comma, Space, "5", Comma, Space, "7">>,
    <<"LOAD", Space, "R1", Comma, Space, "B">>,
    <<"STORE", Space, "R2", Comma, Space, "A">>,
    <<"ADD", Space, "R1", Comma, Space, "R1", Comma, Space, "R2">>,
    <<"SUB", Space, "R1", Comma, Space, "R1", Comma, Space, "7">>,
    <<>>,
    <<Space, Tab>>,
    <<"LOAD", Tab, "R1", Comma, Space, "A">>,
    <<"MUL", Space, "R1", Comma, Space, "R2", Comma, Space, "R1">>,
    <<"LOAD", Space, "R1">>,
    <<"ADD", Space, "R1", Comma, Space, "R2">>,
    <<"ADD", Space, "R1", Comma, Space, "R2", Comma, Space, "5", Comma,
      Space, "R1">> }

\* All sequences over S of length at most n.
SeqsUpTo(S, n) == UNION {[1..k -> S] : k \in 0..n}

(***************************************************************************)
(* PipelineSimulator::checkDependencies, one operator per hazard check.    *)
(***************************************************************************)
IsMem(inst) == inst.type = "LOAD" \/ inst.type = "STORE"

IsAlu(inst) == inst.type = "ADD" \/ inst.type = "SUB"

\* Mutant: the value of a LOAD taken as available at MEM, like an ALU result.
dataAvailableCycle_MemOnly(prev) == prev.memCycle

dataAvailableCycle(prev) ==
  IF prev.type = "LOAD" THEN prev.wbCycle
  ELSE IF IsAlu(prev) THEN prev.memCycle
  ELSE prev.memCycle

RAWHazard(prev, curr, cycle) ==
  /\ prev.destReg # <<>>
  /\ \/ ~curr.isImmediate1 /\ curr.src1Reg = prev.destReg
     \/ ~curr.isImmediate2 /\ curr.src2Reg = prev.destReg
  /\ cycle <= dataAvailableCycle(prev)

WARHazard(prev, curr, cycle) ==
  /\ curr.destReg # <<>>
  /\ \/ ~prev.isImmediate1 /\ curr.destReg = prev.src1Reg
     \/ ~prev.isImmediate2 /\ curr.destReg = prev.src2Reg
  /\ cycle <= prev.idCycle

\* Mutant: the WAW check compares against the earlier ID instead of its WB.
WAWHazard_WrongStage(prev, curr, cycle) ==
  /\ curr.destReg # <<>>
  /\ curr.destReg = prev.destReg
  /\ cycle <= prev.idCycle

WAWHazard(prev, curr, cycle) ==
  /\ curr.destReg # <<>>
  /\ curr.destReg = prev.destReg
  /\ cycle <= prev.wbCycle

\* Mutant: the memory check does not compare the locations.
MemoryHazard_AnyLocation(prev, curr, cycle) ==
  /\ IsMem(curr) /\ IsMem(prev)
  /\ cycle <= prev.memCycle

\* Mutant: no check of earlier accesses to the same location.
MemoryHazard_Off(prev, curr, cycle) == FALSE

MemoryHazard(prev, curr, cycle) ==
  /\ IsMem(curr) /\ IsMem(prev)
  /\ curr.memLoc = prev.memLoc
  /\ cycle <= prev.memCycle

StructuralHazard(prev, curr, cycle) ==
  /\ IsMem(curr) /\ IsMem(prev)
  /\ cycle + 2 = prev.memCycle

\* currIdx is the 0-based index of the code; insts[currIdx + 1] is curr.
checkDependencies(insts, currIdx, cycle) ==
  LET curr == insts[currIdx + 1]
  IN  \A k \in 1..currIdx :
        LET prev == insts[k]
        IN  /\ ~RAWHazard(prev, curr, cycle)
            /\ ~WARHazard(prev, curr, cycle)
            /\ ~WAWHazard(prev, curr, cycle)
            /\ ~MemoryHazard(prev, curr, cycle)
            /\ ~StructuralHazard(prev, curr, cycle)

(***************************************************************************)
(* PipelineSimulator::simulate, statement by statement.                    *)
(***************************************************************************)
\* Mutant: the first instruction is fetched in cycle 0.
FirstStages_FromZero(first) ==
  [first EXCEPT !.ifCycle = 0, !.idCycle = 1, !.exCycle = 2, !.memCycle = 3,
                !.wbCycle = IF first.type = "LOAD" THEN 5 ELSE 4]

\* first.ifCycle = 1; ... first.wbCycle = first.type == LOAD ? 6 : 5;
FirstStages(first) ==
  [first EXCEPT !.ifCycle = 1, !.idCycle = 2, !.exCycle = 3, !.memCycle = 4,
                !.wbCycle = IF first.type = "LOAD" THEN 6 ELSE 5]

\* Mutant: the basic timing is taken from the first instruction.
Predecessor_First(insts, idx) == insts[1]

\* instructions[idx - 1] for the 0-based idx of the code.
Predecessor(insts, idx) == insts[idx]

\* Mutant: the fetch does not advance past the previous instruction's.
BasicTiming_NoAdvance(curr, prev) ==
  [curr EXCEPT !.ifCycle = prev.ifCycle, !.idCycle = prev.ifCycle + 1]

\* Mutant: ID is set to the fetch cycle itself.
BasicTiming_IdAtFetch(curr, prev) ==
  [curr EXCEPT !.ifCycle = prev.ifCycle + 1, !.idCycle = prev.ifCycle + 1]

\* curr.ifCycle = instructions[i-1].ifCycle + 1; curr.idCycle = ifCycle + 1;
BasicTiming(curr, prev) ==
  [curr EXCEPT !.ifCycle = prev.ifCycle + 1, !.idCycle = prev.ifCycle + 2]

\* Mutant: the stall loop delays ID and leaves IF where it was.
StallOnce_IdOnly(curr) ==
  [curr EXCEPT !.idCycle = @ + 1, !.stalled = TRUE]

\* Mutant: the stall loop sets the flag and never moves the candidate cycle.
StallOnce_NoAdvance(curr) == [curr EXCEPT !.stalled = TRUE]

\* The body of the stall loop.
StallOnce(curr) ==
  [curr EXCEPT !.ifCycle = @ + 1, !.idCycle = @ + 1, !.stalled = TRUE]

\* "Set remaining stages".
RemainingStages(curr) ==
  [curr EXCEPT !.exCycle = curr.idCycle + 1,
               !.memCycle = curr.idCycle + 2,
               !.wbCycle = curr.idCycle + 2
                           + (IF curr.type = "LOAD" THEN 2 ELSE 1)]

\* Mutant: a fixed penalty that leaves wbCycle behind.
Shift_NoWb(curr, stallCycles) ==
  [curr EXCEPT !.ifCycle = @ + stallCycles, !.idCycle = @ + stallCycles,
               !.exCycle = @ + stallCycles, !.memCycle = @ + stallCycles]

Shift(curr, stallCycles) ==
  [curr EXCEPT !.ifCycle = @ + stallCycles, !.idCycle = @ + stallCycles,
               !.exCycle = @ + stallCycles, !.memCycle = @ + stallCycles,
               !.wbCycle = @ + stallCycles]

\* Mutant: no additional stall between adjacent memory operations.
MemoryPenalty_Off(curr, prev) == curr

\* "Additional stall for memory operations".
MemoryPenalty(curr, prev) ==
  IF IsMem(curr) /\ IsMem(prev) THEN Shift(curr, 1) ELSE curr

\* Mutant: the dependent-ALU penalty is one cycle.
AluPenalty_OneCycle(curr, prev) ==
  LET hasRegDependency ==
        \/ ~curr.isImmediate1 /\ curr.src1Reg = prev.destReg
        \/ ~curr.isImmediate2 /\ curr.src2Reg = prev.destReg
  IN  IF IsAlu(curr) /\ IsAlu(prev) /\ hasRegDependency
        THEN Shift(curr, 1) ELSE curr

\* "Additional stall for dependent ALU operations".
AluPenalty(curr, prev) ==
  LET hasRegDependency ==
        \/ ~curr.isImmediate1 /\ curr.src1Reg = prev.destReg
        \/ ~curr.isImmediate2 /\ curr.src2Reg = prev.destReg
  IN  IF IsAlu(curr) /\ IsAlu(prev) /\ hasRegDependency
        THEN Shift(curr, 2) ELSE curr

\* Mutant: the maxCycle loop keeps the smaller value.
RECURSIVE MaxCycle_Flipped(_, _)
MaxCycle_Flipped(insts, k) ==
  IF k = 0 THEN 0
  ELSE LET m == MaxCycle_Flipped(insts, k - 1)
       IN  IF insts[k].wbCycle < m THEN insts[k].wbCycle ELSE m

\* The maxCycle loop of simulate.
RECURSIVE MaxCycle(_, _)
MaxCycle(insts, k) ==
  IF k = 0 THEN 0
  ELSE LET m == MaxCycle(insts, k - 1)
       IN  IF insts[k].wbCycle > m THEN insts[k].wbCycle ELSE m

(***************************************************************************)
(* main and the steps of simulate.                                         *)
(***************************************************************************)
Init ==
  /\ \/ countOk = FALSE /\ declared = 0 /\ lines = <<>>
     \/ /\ countOk = TRUE
        /\ declared \in 0..MaxN
        /\ lines \in SeqsUpTo(Lines, declared)
  /\ pos = 0
  /\ instructions = <<>>
  /\ i = 0
  /\ pc = "main"
  /\ out = <<>>
  /\ status = Running

\* if (!(std::cin >> n)) return 1;
ReadCountFail ==
  /\ pc = "main" /\ ~countOk
  /\ status' = <<1>> /\ pc' = "exit"
  /\ UNCHANGED <<countOk, declared, lines, pos, instructions, i, out>>

ReadCountOk ==
  /\ pc = "main" /\ countOk
  /\ pc' = "read"
  /\ UNCHANGED <<countOk, declared, lines, pos, instructions, i, out, status>>

\* Mutant: the result of getline is not tested; the missing line is taken
\* as an empty one.
GetLineFail_Continue ==
  /\ pc = "read" /\ pos < declared /\ pos >= Len(lines)
  /\ instructions' = addInstruction(instructions, <<>>)
  /\ pos' = pos + 1
  /\ UNCHANGED <<countOk, declared, lines, i, pc, out, status>>

\* if (!std::getline(std::cin, line)) return 1;
GetLineFail ==
  /\ pc = "read" /\ pos < declared /\ pos >= Len(lines)
  /\ status' = <<1>> /\ pc' = "exit"
  /\ UNCHANGED <<countOk, declared, lines, pos, instructions, i, out>>

\* std::getline succeeds; simulator.addInstruction(line);
AddInstruction ==
  /\ pc = "read" /\ pos < declared /\ pos < Len(lines)
  /\ instructions' = addInstruction(instructions, lines[pos + 1])
  /\ pos' = pos + 1
  /\ UNCHANGED <<countOk, declared, lines, i, pc, out, status>>

\* simulate(): if (instructions.empty()) return 0; and main prints it.
SimulateEmpty ==
  /\ pc = "read" /\ pos = declared /\ instructions = <<>>
  /\ out' = <<0>> /\ status' = <<0>> /\ pc' = "exit"
  /\ UNCHANGED <<countOk, declared, lines, pos, instructions, i>>

SimulateFirst ==
  /\ pc = "read" /\ pos = declared /\ instructions # <<>>
  /\ instructions' = [instructions EXCEPT ![1] = FirstStages(@)]
  /\ i' = 1 /\ pc' = "loop"
  /\ UNCHANGED <<countOk, declared, lines, pos, out, status>>

\* Mutant: the basic timing is written to the previous instruction.
LoopBasicTiming_WrongIndex ==
  /\ pc = "loop" /\ i < Len(instructions)
  /\ instructions' =
       [instructions EXCEPT ![i] = BasicTiming(@, Predecessor(instructions, i))]
  /\ pc' = "stall"
  /\ UNCHANGED <<countOk, declared, lines, pos, i, out, status>>

\* for (...; i < instructions.size(); ...) { "Start with basic timing"
LoopBasicTiming ==
  /\ pc = "loop" /\ i < Len(instructions)
  /\ instructions' =
       [instructions EXCEPT ![i + 1] = BasicTiming(@, Predecessor(instructions, i))]
  /\ pc' = "stall"
  /\ UNCHANGED <<countOk, declared, lines, pos, i, out, status>>

\* while (!checkDependencies(i, curr.idCycle)) { ... }
Stall ==
  /\ pc = "stall"
  /\ ~checkDependencies(instructions, i, instructions[i + 1].idCycle)
  /\ instructions' = [instructions EXCEPT ![i + 1] = StallOnce(@)]
  /\ UNCHANGED <<countOk, declared, lines, pos, i, pc, out, status>>

\* The loop exits: remaining stages, the two fixed penalties, i++.
FinishInstruction ==
  /\ pc = "stall"
  /\ checkDependencies(instructions, i, instructions[i + 1].idCycle)
  /\ instructions' =
       [instructions EXCEPT ![i + 1] =
          AluPenalty(MemoryPenalty(RemainingStages(@),
                                   Predecessor(instructions, i)),
                     Predecessor(instructions, i))]
  /\ i' = i + 1 /\ pc' = "loop"
  /\ UNCHANGED <<countOk, declared, lines, pos, out, status>>

\* The for loop ends: maxCycle is computed, returned and printed by main.
ReturnMaxCycle ==
  /\ pc = "loop" /\ i >= Len(instructions)
  /\ out' = <<MaxCycle(instructions, Len(instructions))>>
  /\ status' = <<0>> /\ pc' = "exit"
  /\ UNCHANGED <<countOk, declared, lines, pos, instructions, i>>

Next ==
  \/ ReadCountFail
  \/ ReadCountOk
  \/ GetLineFail
  \/ AddInstruction
  \/ SimulateEmpty
  \/ SimulateFirst
  \/ LoopBasicTiming
  \/ Stall
  \/ FinishInstruction
  \/ ReturnMaxCycle

Spec == Init /\ [][Next]_vars

\* simulate has returned and main has printed its result.
Finished == pc = "exit" /\ status = <<0>>


(***************************************************************************)
(* Properties of the schedule.                                             *)
(***************************************************************************)
N == Len(instructions)

\* The registers an instruction reads: its non-empty source-register fields.
SourceRegs(inst) == {inst.src1Reg, inst.src2Reg} \ {<<>>}

\* When a producer's value is available: WB of a LOAD, MEM of an ADD or SUB.
Availability(p) == IF p.type = "LOAD" THEN p.wbCycle ELSE p.memCycle

\* C1: in the finished schedule, for every instruction a and every earlier
\* instruction p (at any distance) whose destination register is a register
\* source operand of a, the ID cycle of a is strictly greater than p's
\* availability cycle (p.WB for a LOAD, p.MEM for an ADD or SUB); a STORE
\* producer or an immediate operand never satisfies the RAW condition.
C1_RawOrdering ==
  Finished =>
    \A a \in 1..N : \A p \in 1..(a - 1) :
      /\ (instructions[p].destReg # <<>>
          /\ instructions[p].destReg \in SourceRegs(instructions[a]))
         => instructions[a].idCycle > Availability(instructions[p])
      /\ RAWHazard(instructions[p], instructions[a], 0)
         => /\ instructions[p].type # "STORE"
            /\ instructions[p].destReg \in SourceRegs(instructions[a])

\* A LOAD two or more places back holds the consumer's ID at exactly WB + 1.
C1_Witness ==
  /\ Finished
  /\ \E a \in 1..N : \E p \in 1..(a - 2) :
       /\ instructions[p].type = "LOAD"
       /\ instructions[p].destReg \in SourceRegs(instructions[a])
       /\ instructions[a].idCycle = instructions[p].wbCycle + 1

\* C2: in the finished schedule, two instructions j < k with the same
\* non-empty destination register have WB[k] strictly greater than WB[j].
C2_WawOrdering ==
  Finished =>
    \A k \in 1..N : \A j \in 1..(k - 1) :
      (instructions[j].destReg # <<>>
       /\ instructions[j].destReg = instructions[k].destReg)
      => instructions[k].wbCycle > instructions[j].wbCycle

\* A non-LOAD writes the register of the LOAD right before it and is stalled.
C2_Witness ==
  /\ Finished
  /\ \E k \in 2..N :
       /\ instructions[k - 1].type = "LOAD"
       /\ IsAlu(instructions[k])
       /\ instructions[k].destReg = instructions[k - 1].destReg
       /\ instructions[k].stalled

\* C3: after simulate finishes every instruction has IF < ID < EX < MEM < WB
\* and WB - MEM is 1 or 2, and is 2 only for a LOAD.
C3_StageOrder ==
  Finished =>
    \A k \in 1..N :
      LET x == instructions[k]
      IN  /\ x.ifCycle < x.idCycle
          /\ x.idCycle < x.exCycle
          /\ x.exCycle < x.memCycle
          /\ x.memCycle < x.wbCycle
          /\ x.wbCycle - x.memCycle \in {1, 2}
          /\ x.wbCycle - x.memCycle = 2 => x.type = "LOAD"

\* After a first LOAD, a stalled LOAD that also took the memory penalty,
\* followed by a non-LOAD.
C3_Witness ==
  /\ Finished
  /\ N >= 3
  /\ instructions[1].type = "LOAD"
  /\ \E k \in 2..(N - 1) :
       /\ instructions[k].type = "LOAD"
       /\ IsMem(instructions[k - 1])
       /\ instructions[k].stalled
       /\ instructions[k + 1].type # "LOAD"

\* C4: after simulate finishes, for every instruction after the first,
\* IF[k] >= IF[k-1] + 1 and ID[k] >= ID[k-1] + 1.
C4_ProgramOrderIssue ==
  Finished =>
    \A k \in 2..N :
      /\ instructions[k].ifCycle >= instructions[k - 1].ifCycle + 1
      /\ instructions[k].idCycle >= instructions[k - 1].idCycle + 1

\* One instruction follows its predecessor at distance exactly 1, another
\* one is delayed.
C4_Witness ==
  /\ Finished
  /\ \E k \in 2..N :
       /\ instructions[k].ifCycle = instructions[k - 1].ifCycle + 1
       /\ instructions[k].idCycle = instructions[k - 1].idCycle + 1
  /\ \E k \in 2..N :
       instructions[k].idCycle > instructions[k - 1].idCycle + 1

\* C5: after simulate finishes, when instruction k and its immediate
\* predecessor are both LOAD or STORE, MEM[k] >= MEM[k-1] + 2, whether or
\* not their memory locations are equal.
C5_MemorySpacing ==
  Finished =>
    \A k \in 2..N :
      (IsMem(instructions[k]) /\ IsMem(instructions[k - 1]))
      => instructions[k].memCycle >= instructions[k - 1].memCycle + 2

\* Adjacent memory operations on different locations, exactly 2 cycles apart.
C5_Witness ==
  /\ Finished
  /\ \E k \in 2..N :
       /\ IsMem(instructions[k]) /\ IsMem(instructions[k - 1])
       /\ instructions[k].memLoc # instructions[k - 1].memLoc
       /\ instructions[k].memCycle = instructions[k - 1].memCycle + 2

\* C6: after simulate finishes, for every instruction after the first the
\* stalled flag is true if and only if its final ID exceeds ID[k-1] + 1,
\* delays caused by the two fixed penalties included.
C6_StalledIffDelayed ==
  Finished =>
    \A k \in 2..N :
      instructions[k].stalled
      <=> instructions[k].idCycle > instructions[k - 1].idCycle + 1

\* C7 as stated: in the finished schedule any two distinct instructions
\* differ in the cycle of every stage, IF, ID, EX, MEM and WB.
C7_OneInstructionPerStage ==
  Finished =>
    \A j \in 1..N : \A k \in 1..N :
      j # k =>
        /\ instructions[j].ifCycle # instructions[k].ifCycle
        /\ instructions[j].idCycle # instructions[k].idCycle
        /\ instructions[j].exCycle # instructions[k].exCycle
        /\ instructions[j].memCycle # instructions[k].memCycle
        /\ instructions[j].wbCycle # instructions[k].wbCycle

\* C7 amended: in the finished schedule any two distinct instructions
\* differ in the cycle of each of the stages IF, ID, EX and MEM.
C7_OneInstructionPerStageToMem ==
  Finished =>
    \A j \in 1..N : \A k \in 1..N :
      j # k =>
        /\ instructions[j].ifCycle # instructions[k].ifCycle
        /\ instructions[j].idCycle # instructions[k].idCycle
        /\ instructions[j].exCycle # instructions[k].exCycle
        /\ instructions[j].memCycle # instructions[k].memCycle

\* A LOAD and the instruction after it write back in the same cycle.
C7_Witness ==
  /\ Finished
  /\ \E k \in 2..N :
       /\ instructions[k - 1].type = "LOAD"
       /\ instructions[k].wbCycle = instructions[k - 1].wbCycle
       /\ instructions[k].memCycle # instructions[k - 1].memCycle

\* C8: simulate returns 0 for an empty list and otherwise the maximum WB,
\* which is the WB of the last instruction, WB being non-decreasing in
\* program order.
C8_ReturnValue ==
  Finished =>
    /\ N = 0 => out = <<0>>
    /\ N > 0 =>
         /\ out = <<instructions[N].wbCycle>>
         /\ \A k \in 1..N : instructions[k].wbCycle <= out[1]
         /\ \A k \in 2..N :
              instructions[k].wbCycle >= instructions[k - 1].wbCycle

\* The last instruction is a non-LOAD right after a LOAD, with the same WB.
C8_Witness ==
  /\ Finished
  /\ N >= 2
  /\ instructions[N - 1].type = "LOAD"
  /\ instructions[N].type # "LOAD"
  /\ instructions[N].wbCycle = instructions[N - 1].wbCycle
  /\ out = <<instructions[N].wbCycle>>

\* C9: for a non-empty list of N instructions the returned value is at
\* least 5 + (N - 1).
C9_AtLeastBaseline ==
  (Finished /\ N > 0) => out[1] >= 5 + (N - 1)

\* Several instructions retire in exactly the unhazarded 5 + (N - 1) cycles.
C9_Witness ==
  /\ Finished
  /\ N >= 2
  /\ out = <<5 + (N - 1)>>

\* The operand fields of a line: its words, in order.
Fields(line) == SelectSeq(line, LAMBDA c : c \in Words)

\* The four forms of an instruction line: LOAD Rd, MEM; STORE Rs, MEM;
\* ADD Rd, Rs1, Rs2|imm; SUB Rd, Rs1, Rs2|imm.
WellShaped(line) ==
  LET f == Fields(line)
  IN  /\ f # <<>>
      /\ \/ f[1] \in {"LOAD", "STORE"} /\ Len(f) = 3
         \/ f[1] \in {"ADD", "SUB"} /\ Len(f) = 4

RECURSIVE DecodeAll(_)
DecodeAll(ls) ==
  IF ls = <<>> THEN <<>>
  ELSE addInstruction(DecodeAll(SubSeq(ls, 1, Len(ls) - 1)), ls[Len(ls)])

\* The decoded fields of an instruction list, without the stage cycles.
Decoded(insts) ==
  [k \in 1..Len(insts) |->
     <<insts[k].type, insts[k].destReg, insts[k].src1Reg, insts[k].src2Reg,
       insts[k].memLoc, insts[k].isImmediate1, insts[k].isImmediate2>>]

\* C10: a line with an unrecognized mnemonic or a wrong operand shape, or an
\* empty line, adds no instruction and does not end the run: the list is
\* what the well-shaped lines read so far decode to, alone and in order.
C10_MalformedLinesDropped ==
  /\ Decoded(instructions) =
       Decoded(DecodeAll(SelectSeq(SubSeq(lines, 1, pos), WellShaped)))
  /\ (status = <<1>>) => (~countOk \/ Len(lines) < declared)

(***************************************************************************)
(* Properties of main and of single instructions.                          *)
(***************************************************************************)
\* The input is cut short: the count is unreadable or fewer lines follow
\* than it declares.
Truncated == ~countOk \/ Len(lines) < declared

\* C11: if the count cannot be read or fewer lines than the declared count
\* are available, main ends with a non-zero status and writes no cycle
\* count; a cycle count is written only after all the declared lines are read.
C11_FatalInputErrors ==
  /\ (pc = "exit" /\ Truncated) => (status = <<1>> /\ out = <<>>)
  /\ Truncated => out = <<>>
  /\ out # <<>> => (countOk /\ pos = declared /\ Len(lines) >= declared)
  /\ pc = "exit" => status \in {<<0>>, <<1>>}

\* Some lines were decoded before the input ran out.
C11_Witness ==
  /\ pc = "exit" /\ status = <<1>> /\ out = <<>>
  /\ countOk /\ pos >= 2 /\ pos < declared
  /\ instructions # <<>>

\* The registers an instruction names.
AllRegs(inst) == {inst.destReg, inst.src1Reg, inst.src2Reg} \ {<<>>}

\* Instruction k has no register in common with an earlier instruction, no
\* memory location in common with an earlier memory operation, and is not a
\* memory operation right after a memory operation.
Independent(k) ==
  /\ \A j \in 1..(k - 1) :
       /\ AllRegs(instructions[k]) \cap AllRegs(instructions[j]) = {}
       /\ (IsMem(instructions[k]) /\ IsMem(instructions[j]))
          => instructions[k].memLoc # instructions[j].memLoc
  /\ ~(IsMem(instructions[k]) /\ IsMem(instructions[k - 1]))

\* C12: an instruction after the first that shares no register with any
\* earlier instruction, no memory location with an earlier memory operation
\* and meets neither adjacency condition with its predecessor is never
\* stalled: stalled is false, IF = IF[k-1] + 1 and ID = ID[k-1] + 1.
C12_IndependentNotStalled ==
  Finished =>
    \A k \in 2..N :
      Independent(k) =>
        /\ ~instructions[k].stalled
        /\ instructions[k].ifCycle = instructions[k - 1].ifCycle + 1
        /\ instructions[k].idCycle = instructions[k - 1].idCycle + 1

\* An independent memory operation two places after another memory
\* operation, and right after an instruction that was not.
C12_Witness ==
  /\ Finished
  /\ \E k \in 3..N :
       /\ Independent(k)
       /\ IsMem(instructions[k]) /\ IsMem(instructions[k - 2])
       /\ ~instructions[k].stalled

\* C13: an ADD or SUB line is accepted only with exactly a destination and
\* two source operands; with fewer or more it adds no instruction.
C13_AddSubExactlyTwoSources ==
  \A k \in 1..pos :
    LET tokens == Tokenize(trim(lines[k]))
    IN  (tokens # <<>> /\ tokens[1] \in {<<"ADD">>, <<"SUB">>})
        => /\ parseAddSub(lines[k], NewInstruction).ok => Len(tokens) = 4
           /\ Len(tokens) # 4 => addInstruction(<<>>, lines[k]) = <<>>

\* C14 as stated: in the finished schedule IF[k] is exactly IF[k-1] + 1 for
\* every instruction after the first.
C14_FetchExactlyOneLater ==
  Finished =>
    \A k \in 2..N :
      instructions[k].ifCycle = instructions[k - 1].ifCycle + 1

\* C14 amended: in the finished schedule IF[k] is at least IF[k-1] + 1 and
\* is ID[k] - 1: a stall or penalty of instruction k delays its own IF by as
\* many cycles as its ID.
C14_FetchMovesWithDecode ==
  Finished =>
    \A k \in 2..N :
      /\ instructions[k].ifCycle >= instructions[k - 1].ifCycle + 1
      /\ instructions[k].ifCycle = instructions[k].idCycle - 1
      /\ instructions[k].ifCycle - instructions[k - 1].ifCycle
         = instructions[k].idCycle - instructions[k - 1].idCycle

\* A stalled instruction whose fetch is more than one cycle after its
\* predecessor's.
C14_Witness ==
  /\ Finished
  /\ \E k \in 2..N :
       /\ instructions[k].stalled
       /\ instructions[k].ifCycle > instructions[k - 1].ifCycle + 1

\* The earliest ID cycle of instruction k, from the basic timing on, at
\* which the hazard checks against all earlier instructions pass.
EarliestId(k) ==
  LET ok(c) == checkDependencies(instructions, k - 1, c)
      from  == instructions[k - 1].idCycle + 1
  IN  CHOOSE c \in from..instructions[k].idCycle :
        ok(c) /\ \A d \in from..(c - 1) : ~ok(d)

\* C15: when instruction k and its predecessor are both ADD/SUB and k reads
\* the predecessor's destination as a register operand, all five stages of
\* k are exactly 2 cycles later than the earliest schedule passing the
\* hazard checks, and ID[k] >= MEM[k-1] + 3; when no register operand of k
\* matches, the penalty is not applied.
C15_DependentAluPenalty ==
  Finished =>
    \A k \in 2..N :
      (IsAlu(instructions[k]) /\ IsAlu(instructions[k - 1])) =>
        LET x == instructions[k]
            e == EarliestId(k)
        IN  IF instructions[k - 1].destReg \in SourceRegs(x)
              THEN /\ x.ifCycle = e - 1 + 2
                   /\ x.idCycle = e + 2
                   /\ x.exCycle = e + 1 + 2
                   /\ x.memCycle = e + 2 + 2
                   /\ x.wbCycle = e + 3 + 2
                   /\ x.idCycle >= instructions[k - 1].memCycle + 3
              ELSE x.idCycle = e

\* A dependent ADD/SUB pair with the later ID exactly at MEM[k-1] + 3.
C15_Witness ==
  /\ Finished
  /\ \E k \in 2..N :
       /\ IsAlu(instructions[k]) /\ IsAlu(instructions[k - 1])
       /\ instructions[k - 1].destReg \in SourceRegs(instructions[k])
       /\ instructions[k].idCycle = instructions[k - 1].memCycle + 3

\* The rounds the stall loop may still run: every hazard check passes once
\* the candidate ID cycle is above the WB of all earlier instructions.
StallSlack ==
  MaxCycle(instructions, i) + 1 - instructions[i + 1].idCycle

\* What is left of the run, ordered lexicographically: the phase of main,
\* the lines or instructions still to process, the position inside the loop
\* body, and the rounds left to the stall loop.
Measure ==
  CASE pc = "main"  -> <<3, 0, 0, 0>>
    [] pc = "read"  -> <<2, declared - pos, 0, 0>>
    [] pc = "loop"  -> <<1, N + 1 - i, 1, 0>>
    [] pc = "stall" -> <<1, N + 1 - i, 0, StallSlack>>
    [] OTHER        -> <<0, 0, 0, 0>>

LexLess(a, b) ==
  \E k \in 1..4 : a[k] < b[k] /\ \A j \in 1..(k - 1) : a[j] = b[j]

\* C16: for every finite instruction list simulate terminates and each
\* stall loop is left: every step of the run lowers a measure that never
\* goes below zero, and when a step enters or repeats the stall loop the
\* hazard checks pass at every candidate cycle above the WB of all earlier
\* instructions.
C16_Terminates ==
  [][/\ LexLess(Measure', Measure)
     /\ \A k \in 1..4 : Measure'[k] >= 0
     /\ pc' = "stall" =>
          \A c \in 1..3 :
            checkDependencies(instructions', i',
                              MaxCycle(instructions', i') + c)]_vars

\* A stall loop that ran at least four rounds has been left, and the run
\* has ended.
C16_Witness ==
  /\ Finished
  /\ \E k \in 2..N :
       /\ instructions[k].stalled
       /\ ~(IsMem(instructions[k]) /\ IsMem(instructions[k - 1]))
       /\ ~(IsAlu(instructions[k]) /\ IsAlu(instructions[k - 1]))
       /\ instructions[k].idCycle >= instructions[k - 1].idCycle + 5

\* simulate is running.
InSimulate == (pc = "read" /\ pos = declared) \/ pc \in {"loop", "stall"}

\* C17: while simulate schedules instruction i, the stage cycles and the
\* stalled flag of every earlier instruction stay as they are, the decoded
\* fields of every instruction stay as they are, and so do the order and
\* the length of the list.
C17_SchedulerFrame ==
  [][InSimulate =>
       /\ Len(instructions') = Len(instructions)
       /\ Decoded(instructions') = Decoded(instructions)
       /\ \A k \in 1..N :
            (pc \in {"loop", "stall"} /\ k <= i)
            => instructions'[k] = instructions[k]]_vars

\* The third instruction is in its stall loop, after a stalled second one.
C17_Witness ==
  /\ pc = "stall"
  /\ i = 2
  /\ instructions[2].stalled
  /\ instructions[3].stalled

\* C18: at every call of checkDependencies made by simulate the candidate
\* cycle is above the ID of every earlier instruction and cycle + 2 is
\* above the MEM of every earlier instruction, so the WAR check and the
\* memory-unit check never fire; when the call returns false, the RAW, the
\* WAW or the same-location check has fired.
C18_WarAndStructuralNeverFire ==
  pc = "stall" =>
    LET curr  == instructions[i + 1]
        cycle == curr.idCycle
    IN  /\ \A k \in 1..i :
             /\ cycle > instructions[k].idCycle
             /\ cycle + 2 > instructions[k].memCycle
             /\ ~WARHazard(instructions[k], curr, cycle)
             /\ ~StructuralHazard(instructions[k], curr, cycle)
        /\ ~checkDependencies(instructions, i, cycle) =>
             \E k \in 1..i :
               \/ RAWHazard(instructions[k], curr, cycle)
               \/ WAWHazard(instructions[k], curr, cycle)
               \/ MemoryHazard(instructions[k], curr, cycle)

\* A call that returns false for a memory operation that writes a register
\* an earlier instruction reads, with an earlier memory operation present.
C18_Witness ==
  /\ pc = "stall"
  /\ ~checkDependencies(instructions, i, instructions[i + 1].idCycle)
  /\ \E k \in 1..i :
       /\ IsMem(instructions[k]) /\ IsMem(instructions[i + 1])
       /\ instructions[i + 1].destReg # <<>>
       /\ instructions[i + 1].destReg \in SourceRegs(instructions[k])

\* The earliest ID cycle of instruction k, from the basic timing on, at
\* which the three register checks against all earlier instructions pass.
EarliestRegisterId(k) ==
  LET curr  == instructions[k]
      ok(c) == \A j \in 1..(k - 1) :
                 /\ ~RAWHazard(instructions[j], curr, c)
                 /\ ~WARHazard(instructions[j], curr, c)
                 /\ ~WAWHazard(instructions[j], curr, c)
      from  == instructions[k - 1].idCycle + 1
  IN  CHOOSE c \in from..instructions[k].idCycle :
        ok(c) /\ \A d \in from..(c - 1) : ~ok(d)

\* C19: in the finished schedule, two memory operations j < k at any
\* distance with equal memory locations have ID[k] > MEM[j]; a memory
\* operation whose earlier memory operations all use other locations and
\* whose predecessor is no memory operation gets no memory-related delay:
\* its ID is the earliest the register checks allow.
C19_SameLocationOrdering ==
  Finished =>
    \A k \in 2..N :
      IsMem(instructions[k]) =>
        /\ \A j \in 1..(k - 1) :
             (IsMem(instructions[j])
              /\ instructions[j].memLoc = instructions[k].memLoc)
             => instructions[k].idCycle > instructions[j].memCycle
        /\ ((\A j \in 1..(k - 1) :
               IsMem(instructions[j])
               => instructions[j].memLoc # instructions[k].memLoc)
            /\ ~IsMem(instructions[k - 1]))
           => instructions[k].idCycle = EarliestRegisterId(k)

\* A memory operation held at exactly MEM + 1 of an access to the same
\* location two places back.
C19_Witness ==
  /\ Finished
  /\ \E k \in 3..N :
       /\ IsMem(instructions[k]) /\ IsMem(instructions[k - 2])
       /\ ~IsMem(instructions[k - 1])
       /\ instructions[k].memLoc = instructions[k - 2].memLoc
       /\ instructions[k].idCycle = instructions[k - 2].memCycle + 1

(***************************************************************************)
(* src/pipeline_simulation/main.cpp: the same program with another decoder *)
(* and another scheduler.  It runs on the same variables under SpecMain;   *)
(* its Instruction has destReg, op1, op2 and the five stage cycles.        *)
(***************************************************************************)
\* Largest declared instruction count of an input of main.cpp.
MaxMainN == 4

\* What an uninitialised Instruction::type may hold: one of the four
\* enumerators or any other value.
IndeterminateTypes == {"LOAD", "STORE", "ADD", "SUB", "OTHER"}

\* Instruction inst; with its type holding t.
NewInstructionMain(t) ==
  [type |-> t, destReg |-> <<>>, op1 |-> <<>>, op2 |-> <<>>,
   ifCycle |-> -1, idCycle |-> -1, exCycle |-> -1, memCycle |-> -1,
   wbCycle |-> -1]

\* A word without its last character ("" for a one-character word).
ChopWord ==
  [w \in Words |->
     CASE w \in {"R1", "R2"} -> "R"
       [] w = "LOAD" -> "LOA"
       [] w = "STORE" -> "STOR"
       [] w = "ADD" -> "AD"
       [] w = "SUB" -> "SU"
       [] w = "MUL" -> "MU"
       [] OTHER -> ""]

\* std::string::pop_back on a non-empty token.
PopBack(token) ==
  LET n    == Len(token)
      rest == SubSeq(token, 1, n - 1)
  IN  IF token[n] \in Words /\ ChopWord[token[n]] # ""
        THEN Append(rest, ChopWord[token[n]])
        ELSE rest

\* ss >> field for the k-th token of the line: the field keeps its old
\* value (empty) if the line has no such token.
Extract(tokens, k) == IF k <= Len(tokens) THEN tokens[k] ELSE <<>>

\* The instruction list after main.cpp's addInstruction(line), for a new
\* Instruction whose type holds t.  The lines of MainLines never reach a
\* pop_back of an empty string.
addInstructionMain(insts, line, t) ==
  LET tokens == Split(line, 1, <<>>)
      type   == Extract(tokens, 1)
      inst   == NewInstructionMain(t)
      two    == [inst EXCEPT !.destReg = PopBack(Extract(tokens, 2)),
                             !.op1 = Extract(tokens, 3)]
      three  == [inst EXCEPT !.destReg = PopBack(Extract(tokens, 2)),
                             !.op1 = PopBack(Extract(tokens, 3)),
                             !.op2 = Extract(tokens, 4)]
  IN  Append(insts,
        CASE type = <<"LOAD">>  -> [two EXCEPT !.type = "LOAD"]
          [] type = <<"STORE">> -> [two EXCEPT !.type = "STORE"]
          [] type = <<"ADD">>   -> [three EXCEPT !.type = "ADD"]
          [] type = <<"SUB">>   -> [three EXCEPT !.type = "SUB"]
          [] OTHER -> inst)

\* Whether addInstruction reads the uninitialised type: no branch assigns it.
TypeLeftUnset(line) ==
  Extract(Split(line, 1, <<>>), 1)
    \notin {<<"LOAD">>, <<"STORE">>, <<"ADD">>, <<"SUB">>}

\* op[0] == 'R'
isRegister(op) ==
  /\ op # <<>>
  /\ \/ op[1] = "R"
     \/ op[1] \in Words /\ WordFirstChar[op[1]] = "R"

\* Whether inst2 depends on inst1.
hasDependency(inst1, inst2) ==
  LET uses == \/ inst2.destReg = inst1.destReg
              \/ isRegister(inst2.op1) /\ inst2.op1 = inst1.destReg
              \/ isRegister(inst2.op2) /\ inst2.op2 = inst1.destReg
  IN  IF inst1.type = "LOAD"
        THEN IF IsAlu(inst2) THEN uses
             ELSE IF inst2.type = "STORE"
               THEN inst2.destReg = inst1.destReg
             ELSE FALSE
      ELSE IF inst1.type = "STORE"
        THEN IF IsAlu(inst2) THEN inst2.destReg = inst1.destReg
             ELSE IF inst2.type = "STORE" \/ inst2.type = "LOAD" THEN TRUE
             ELSE FALSE
      ELSE IF IsAlu(inst1)
        THEN IF IsAlu(inst2) THEN uses
             ELSE IF inst2.type = "STORE"
               THEN inst2.destReg = inst1.destReg
             ELSE FALSE
      ELSE FALSE

Max(a, b) == IF a > b THEN a ELSE b

\* instructions[0].ifCycle = 1; ... instructions[0].wbCycle = 5;
FirstStagesMain(first) ==
  [first EXCEPT !.ifCycle = 1, !.idCycle = 2, !.exCycle = 3, !.memCycle = 4,
                !.wbCycle = 5]

\* maxDepCycle after the loop over all earlier instructions.
RECURSIVE MaxDepCycle(_, _, _, _)
MaxDepCycle(insts, inst, j, start) ==
  IF j = 0 THEN start
  ELSE LET m == MaxDepCycle(insts, inst, j - 1, start)
       IN  IF hasDependency(insts[j], inst) THEN Max(m, insts[j].wbCycle)
                                            ELSE m

\* The body of the for loop of simulate for the 0-based index idx:
\* the stages of insts[idx + 1], in the order the code assigns them.
ScheduleMain(insts, idx) ==
  LET inst == insts[idx + 1]
      prev == insts[idx]
      deps == {j \in 1..idx : hasDependency(insts[j], inst)}
      hasRegDep       == deps # {}
      hasLoadStoreDep == \E j \in deps : IsMem(insts[j])
      s0 == [inst EXCEPT !.ifCycle = prev.ifCycle + 1,
                         !.idCycle = prev.ifCycle + 2,
                         !.exCycle = prev.ifCycle + 3,
                         !.memCycle = prev.ifCycle + 4,
                         !.wbCycle = prev.ifCycle + 5]
      maxDepCycle == MaxDepCycle(insts, inst, idx, s0.idCycle)
      \* "Always ensure minimum pipeline spacing"
      s1 == [s0 EXCEPT !.idCycle = Max(@, prev.idCycle + 1),
                       !.exCycle = Max(@, prev.exCycle + 1),
                       !.memCycle = Max(@, prev.memCycle + 1),
                       !.wbCycle = Max(@, prev.wbCycle + 1)]
      \* "Handle register dependencies"
      id2 == Max(maxDepCycle, s1.idCycle)
      s2 == IF hasRegDep /\ ~hasLoadStoreDep
              THEN [s1 EXCEPT !.idCycle = id2, !.exCycle = id2 + 1,
                              !.memCycle = id2 + 2, !.wbCycle = id2 + 3]
              ELSE s1
      \* "Must wait longer for LOAD/STORE dependencies"
      id3 == Max(maxDepCycle + 1, s2.idCycle)
      s3 == IF hasLoadStoreDep
              THEN [s2 EXCEPT !.idCycle = id3, !.exCycle = id3 + 1,
                              !.memCycle = id3 + 2, !.wbCycle = id3 + 3]
              ELSE s2
      \* "Ensure memory operations are properly spaced"
      mem4 == Max(s3.memCycle, prev.memCycle + 2)
      s4 == IF IsMem(inst)
              THEN [s3 EXCEPT !.memCycle = mem4, !.wbCycle = mem4 + 1]
              ELSE s3
      \* "Ensure each stage follows its previous stage"
      ex5  == Max(s4.exCycle, s4.idCycle + 1)
      mem5 == Max(s4.memCycle, ex5 + 1)
      wb5  == Max(s4.wbCycle, mem5 + 1)
  IN  [s4 EXCEPT !.exCycle = ex5, !.memCycle = mem5, !.wbCycle = wb5]

\* The input lines of main.cpp.
MainLines ==
  { <<"LOAD", Space, "R1", Comma, Space, "A">>,
    <<"LOAD", Space, "R2", Comma, Space, "B">>,
    <<"STORE", Space, "R1", Comma, Space, "A">>,
    <<"STORE", Space, "R2", Comma, Space, "B">>,
    <<"ADD", Space, "R1", Comma, Space, "R2", Comma, Space, "5">>,
    <<"ADD", Space, "R2", Comma, Space, "R1", Comma, Space, "R1">>,
    <<"SUB", Space, "R1", Comma, Space, "R1", Comma, Space, "7">>,
    <<"SUB", Space, "R2", Comma, Space, "5", Comma, Space, "7">>,
    <<"MUL", Space, "R1", Comma, Space, "R2", Comma, Space, "R1">> }

InitMain ==
  /\ \/ countOk = FALSE /\ declared = 0 /\ lines = <<>>
     \/ /\ countOk = TRUE
        /\ declared \in 0..MaxMainN
        /\ lines \in SeqsUpTo(MainLines, declared)
  /\ pos = 0
  /\ instructions = <<>>
  /\ i = 0
  /\ pc = "main"
  /\ out = <<>>
  /\ status = Running

\* std::cin >> N; with no test of the stream: a failed extraction leaves
\* N = 0, which Init already holds in declared.
MainReadCount ==
  /\ pc = "main"
  /\ pc' = "read"
  /\ UNCHANGED <<countOk, declared, lines, pos, instructions, i, out, status>>

\* std::getline(std::cin, line); simulator.addInstruction(line); the line
\* is empty when the input has run out.
MainAddInstruction ==
  /\ pc = "read" /\ pos < declared
  /\ LET line == IF pos < Len(lines) THEN lines[pos + 1] ELSE <<>>
     IN  \E t \in IndeterminateTypes :
           /\ ~TypeLeftUnset(line) => t = "OTHER"
           /\ instructions' = addInstructionMain(instructions, line, t)
  /\ pos' = pos + 1
  /\ UNCHANGED <<countOk, declared, lines, i, pc, out, status>>

\* if (instructions.empty()) return 0; and main prints it.
MainSimulateEmpty ==
  /\ pc = "read" /\ pos = declared /\ instructions = <<>>
  /\ out' = <<0>> /\ status' = <<0>> /\ pc' = "exit"
  /\ UNCHANGED <<countOk, declared, lines, pos, instructions, i>>

MainSimulateFirst ==
  /\ pc = "read" /\ pos = declared /\ instructions # <<>>
  /\ instructions' = [instructions EXCEPT ![1] = FirstStagesMain(@)]
  /\ i' = 1 /\ pc' = "loop"
  /\ UNCHANGED <<countOk, declared, lines, pos, out, status>>

\* One round of the for loop.
MainSchedule ==
  /\ pc = "loop" /\ i < Len(instructions)
  /\ instructions' =
       [instructions EXCEPT ![i + 1] = ScheduleMain(instructions, i)]
  /\ i' = i + 1
  /\ UNCHANGED <<countOk, declared, lines, pos, pc, out, status>>

\* return instructions.back().wbCycle; and main prints it.
MainReturn ==
  /\ pc = "loop" /\ i >= Len(instructions)
  /\ out' = <<instructions[Len(instructions)].wbCycle>>
  /\ status' = <<0>> /\ pc' = "exit"
  /\ UNCHANGED <<countOk, declared, lines, pos, instructions, i>>

NextMain ==
  \/ MainReadCount
  \/ MainAddInstruction
  \/ MainSimulateEmpty
  \/ MainSimulateFirst
  \/ MainSchedule
  \/ MainReturn

SpecMain == InitMain /\ [][NextMain]_vars

\* The input is complete and every line starts with one of the four
\* mnemonics, so that no instruction type is left uninitialised.
MainWellFormedInput ==
  /\ countOk
  /\ Len(lines) = declared
  /\ \A k \in 1..Len(lines) : ~TypeLeftUnset(lines[k])

\* C20: in the finished schedule of main.cpp each of ID, EX, MEM and WB of
\* every instruction after the first is at least one cycle later than the
\* same stage of its predecessor, and the returned value, the last WB, is
\* the largest WB of the program.
C20_MinimumSpacing ==
  (Finished /\ MainWellFormedInput) =>
    /\ \A k \in 2..N :
         /\ instructions[k].idCycle >= instructions[k - 1].idCycle + 1
         /\ instructions[k].exCycle >= instructions[k - 1].exCycle + 1
         /\ instructions[k].memCycle >= instructions[k - 1].memCycle + 1
         /\ instructions[k].wbCycle >= instructions[k - 1].wbCycle + 1
    /\ \A k \in 1..N : out[1] >= instructions[k].wbCycle


\* C21: in the finished schedule of main.cpp every instruction has each stage
\* exactly one cycle after its previous stage: EX = ID + 1, MEM = EX + 1 and
\* WB = MEM + 1, LOAD and STORE instructions whose MEM was pushed by the
\* memory-spacing rule included.
C21_StagesExactlyOneApart ==
  (Finished /\ MainWellFormedInput) =>
    \A k \in 1..N :
      /\ instructions[k].exCycle = instructions[k].idCycle + 1
      /\ instructions[k].memCycle = instructions[k].exCycle + 1
      /\ instructions[k].wbCycle = instructions[k].memCycle + 1

====
